---- MODULE Spec2Model ----
(***************************************************************************)
(* A model of the panel-recognition core of freshman2019: the Image class  *)
(* hierarchy (camera/image/image.py, camera/color_image.py,                *)
(* camera/gray_image.py), the Camera facade (camera/camera.py) and the     *)
(* bot commands that call it (bot.py).                                     *)
(*                                                                         *)
(* Python calls are modelled as operators that yield a result record:      *)
(* kind = "return" with the returned value, or kind = "raise" with the     *)
(* name of the exception class that leaves the call.  A pixel buffer is    *)
(* modelled by its shape (ndim, h, w, ch) and by the sequence of slices    *)
(* and OpenCV transforms applied to the raw buffer (data); two buffers are *)
(* equal when all of these are equal.                                      *)
(***************************************************************************)
EXTENDS Integers, Sequences, FiniteSets, TLC

VARIABLES img, res, cam, pwr, bot

vars == <<img, res, cam, pwr, bot>>

\* Bounds of the model.
MaxDim == 2
MaxOps == 1
MaxKernel == 4
MaxTextLen == 3

Max(a, b) == IF a > b THEN a ELSE b
Min(a, b) == IF a < b THEN a ELSE b

(***************************************************************************)
(* Image hierarchy                                                         *)
(***************************************************************************)

\* A numpy buffer handed to a constructor: 2-D (h, w) or 3-D (h, w, ch).
Buffers ==
    { [ndim |-> 2, h |-> hh, w |-> ww, ch |-> 0] : hh \in 1..MaxDim, ww \in 1..MaxDim }
    \cup
    { [ndim |-> 3, h |-> hh, w |-> ww, ch |-> c] :
        hh \in 1..MaxDim, ww \in 1..MaxDim, c \in {1, 3, 4} }

NoImage ==
    [cls |-> "None", ndim |-> 0, h |-> 0, w |-> 0, ch |-> 0, data |-> << >>]

\* The object a constructor builds around a buffer (self.data = img).
Wrap(cls, buf) ==
    [cls |-> cls, ndim |-> buf.ndim, h |-> buf.h, w |-> buf.w, ch |-> buf.ch,
     data |-> << >>]

\* One slice or OpenCV transform applied to a buffer.
BufOp(name, a, b, c, d) == [op |-> name, a |-> a, b |-> b, c |-> c, d |-> d]

Return(v) == [kind |-> "return", exc |-> "", ret |-> v]
Raise(e) == [kind |-> "raise", exc |-> e, ret |-> NoImage]

\* Image.nChannel, overridden by the classmethod GrayImage.nChannel.
nChannel(cls, buf) ==
    IF cls = "Gray" THEN 2
    ELSE IF buf.ndim = 3 THEN buf.ch ELSE 1

\* ColorImage.isNChannelCorrect; GrayImage defines none, so the base
\* class's method runs and raises NotImplementedError.
isNChannelCorrect(cls, buf) ==
    IF cls = "Color"
    THEN [kind |-> "return", exc |-> "", val |-> (nChannel(cls, buf) = 3)]
    ELSE [kind |-> "raise", exc |-> "NotImplementedError", val |-> FALSE]

\* Image.__init__: on a mismatch the message is formatted from the names
\* nDim and expectedNDim, which are bound nowhere, so NameError is raised
\* before the AssertionError is built.
Image__init__(cls, buf) ==
    LET c == isNChannelCorrect(cls, buf) IN
    IF c.kind = "raise" THEN Raise(c.exc)
    ELSE IF ~c.val THEN Raise("NameError")
    ELSE Return(Wrap(cls, buf))

\* Python's slice bounds for a[i:j] on an axis of length n.
PySliceIndex(i, n) == IF i < 0 THEN Max(i + n, 0) ELSE Min(i, n)

PySliceLen(i, j, n) == Max(PySliceIndex(j, n) - PySliceIndex(i, n), 0)

\* Image.trim: self.data = self.data[y1:y2, x1:x2]; return self.
trim(self, p1, p2) ==
    LET x1 == p1[1]
        y1 == p1[2]
        x2 == p2[1]
        y2 == p2[2]
    IN Return([self EXCEPT
                 !.h = PySliceLen(y1, y2, self.h),
                 !.w = PySliceLen(x1, x2, self.w),
                 !.data = Append(self.data,
                                 BufOp("slice",
                                       PySliceIndex(y1, self.h),
                                       PySliceIndex(y2, self.h),
                                       PySliceIndex(x1, self.w),
                                       PySliceIndex(x2, self.w)))])

\* cv2.cvtColor(data, COLOR_BGR2GRAY): a new 2-D buffer of the same extent.
cvtColor(self) ==
    [ndim |-> 2, h |-> self.h, w |-> self.w, ch |-> 0]

\* ColorImage.toGray: GrayImage(cv2.cvtColor(...)); GrayImage.toGray: self.
toGray(self) ==
    IF self.cls = "Gray" THEN Return(self)
    ELSE IF self.h = 0 \/ self.w = 0 THEN Raise("cv2.error")
    ELSE LET g == Image__init__("Gray", cvtColor(self)) IN
         IF g.kind = "raise" THEN g
         ELSE Return([g.ret EXCEPT
                        !.data = Append(self.data, BufOp("cvtColor", 0, 0, 0, 0))])

\* Image._rotate: size = shape[0:2] = (height, width) is handed to OpenCV
\* both as the centre and as dsize, where OpenCV reads (x, y) and
\* (width, height).  The centre is kept doubled: column*2 and row*2.
Image_rotate(self, degree) ==
    IF self.h = 0 \/ self.w = 0 THEN Raise("cv2.error")
    ELSE Return([self EXCEPT
                   !.h = self.w,
                   !.w = self.h,
                   !.data = Append(self.data,
                                   BufOp("warpAffine", degree, self.h, self.w, 0))])

blur_median_coerce(self, kernelSize) ==
    LET k == IF (kernelSize % 2) # 1 THEN kernelSize + 1 ELSE kernelSize IN
    IF k < 0 THEN Raise("cv2.error")
    ELSE Return([self EXCEPT
                   !.data = Append(self.data, BufOp("medianBlur", k, 0, 0, 0))])

\* GrayImage.blur_median: the assert, then self.data = cv2.medianBlur(...).
\* OpenCV itself rejects a negative odd size.
blur_median(self, kernelSize) ==
    IF (kernelSize % 2) # 1 THEN Raise("AssertionError")
    ELSE IF kernelSize < 0 THEN Raise("cv2.error")
    ELSE Return([self EXCEPT
                   !.data = Append(self.data,
                                   BufOp("medianBlur", kernelSize, 0, 0, 0))])

(***************************************************************************)
(* Outcome of the last image operation.                                    *)
(***************************************************************************)

NoRes ==
    [op |-> "none", kind |-> "", exc |-> "", cls |-> "",
     args |-> <<0, 0, 0, 0>>, pre |-> NoImage, ret |-> NoImage]

MkRes(op, r, cls, args, pre) ==
    [op |-> op, kind |-> r.kind, exc |-> r.exc, cls |-> cls,
     args |-> args, pre |-> pre, ret |-> r.ret]

\* Methods mutate self and return it; a raised call leaves self as it was.
After(self, r) == IF r.kind = "return" /\ r.ret.cls = self.cls THEN r.ret ELSE self

Coords == (0 - 1)..(MaxDim + 1)

Degrees == {0, 45, 90}

Kernels == (0 - 2)..MaxKernel

\* ColorImage(buf) / GrayImage(buf)
Construct ==
    \E cls \in {"Color", "Gray"}, buf \in Buffers :
        LET r == Image__init__(cls, buf) IN
        /\ res' = MkRes("construct", r, cls, <<buf.ndim, buf.h, buf.w, buf.ch>>, NoImage)
        /\ img' = IF r.kind = "return" THEN r.ret ELSE img
        /\ UNCHANGED <<cam, pwr, bot>>

\* img.trim(p1, p2)
Trim ==
    /\ img.cls # "None"
    /\ Len(img.data) < MaxOps
    /\ \E x1 \in Coords, y1 \in Coords, x2 \in Coords, y2 \in Coords :
        LET r == trim(img, <<x1, y1>>, <<x2, y2>>) IN
        /\ res' = MkRes("trim", r, img.cls, <<x1, y1, x2, y2>>, img)
        /\ img' = After(img, r)
    /\ UNCHANGED <<cam, pwr, bot>>

\* img.toGray()
ToGray ==
    /\ img.cls # "None"
    /\ LET r == toGray(img) IN
        /\ res' = MkRes("toGray", r, img.cls, <<0, 0, 0, 0>>, img)
        /\ img' = img
    /\ UNCHANGED <<cam, pwr, bot>>

\* img._rotate(degree)
Rotate ==
    /\ img.cls # "None"
    /\ Len(img.data) < MaxOps
    /\ \E degree \in Degrees :
        LET r == Image_rotate(img, degree) IN
        /\ res' = MkRes("rotate", r, img.cls, <<degree, 0, 0, 0>>, img)
        /\ img' = After(img, r)
    /\ UNCHANGED <<cam, pwr, bot>>

\* img.blur_median(kernelSize)
BlurMedian ==
    /\ img.cls = "Gray"
    /\ Len(img.data) < MaxOps
    /\ \E k \in Kernels :
        LET r == blur_median(img, k) IN
        /\ res' = MkRes("blur_median", r, img.cls, <<k, 0, 0, 0>>, img)
        /\ img' = After(img, r)
    /\ UNCHANGED <<cam, pwr, bot>>

(***************************************************************************)
(* Text: a Python str is a sequence of one-character strings.              *)
(***************************************************************************)

Chars == {"0", "1", "3", "4", "9", "-", "+", " ", "_", "x"}

Digits == {"0", "1", "2", "3", "4", "5", "6", "7", "8", "9"}

DigitVal(c) ==
    CASE c = "0" -> 0 [] c = "1" -> 1 [] c = "2" -> 2 [] c = "3" -> 3
      [] c = "4" -> 4 [] c = "5" -> 5 [] c = "6" -> 6 [] c = "7" -> 7
      [] c = "8" -> 8 [] c = "9" -> 9

DigitChar(d) ==
    CASE d = 0 -> "0" [] d = 1 -> "1" [] d = 2 -> "2" [] d = 3 -> "3"
      [] d = 4 -> "4" [] d = 5 -> "5" [] d = 6 -> "6" [] d = 7 -> "7"
      [] d = 8 -> "8" [] d = 9 -> "9"

RECURSIVE StrOfLen(_)
StrOfLen(n) ==
    IF n = 0 THEN { << >> }
    ELSE { Append(t, c) : t \in StrOfLen(n - 1), c \in Chars }

Texts == UNION { StrOfLen(n) : n \in 0..MaxTextLen }

\* str.strip() as int() applies it to its argument.
RECURSIVE LStrip(_)
LStrip(s) == IF Len(s) > 0 /\ s[1] = " " THEN LStrip(Tail(s)) ELSE s

RECURSIVE RStrip(_)
RStrip(s) ==
    IF Len(s) > 0 /\ s[Len(s)] = " " THEN RStrip(SubSeq(s, 1, Len(s) - 1)) ELSE s

\* The digits of an int() literal: one underscore may separate two digits.
IsDigitGroup(s) ==
    /\ Len(s) > 0
    /\ \A i \in 1..Len(s) :
        \/ s[i] \in Digits
        \/ /\ s[i] = "_"
           /\ 1 < i
           /\ i < Len(s)
           /\ s[i - 1] \in Digits
           /\ s[i + 1] \in Digits

RECURSIVE DigitsValue(_, _)
DigitsValue(s, acc) ==
    IF Len(s) = 0 THEN acc
    ELSE IF s[1] = "_" THEN DigitsValue(Tail(s), acc)
    ELSE DigitsValue(Tail(s), acc * 10 + DigitVal(s[1]))

\* Python's int(str): surrounding whitespace, an optional sign, digits.
\* ok = FALSE stands for ValueError.
int(s) ==
    LET t == RStrip(LStrip(s))
        signed == Len(t) > 0 /\ t[1] \in {"+", "-"}
        body == IF signed THEN Tail(t) ELSE t
    IN IF ~IsDigitGroup(body) THEN [ok |-> FALSE, val |-> 0]
       ELSE [ok |-> TRUE,
             val |-> IF signed /\ t[1] = "-"
                     THEN 0 - DigitsValue(body, 0)
                     ELSE DigitsValue(body, 0)]

RECURSIVE NatToStr(_)
NatToStr(n) ==
    IF n < 10 THEN << DigitChar(n) >>
    ELSE Append(NatToStr(n \div 10), DigitChar(n % 10))

\* "%d" % n
FormatD(n) == IF n < 0 THEN << "-" >> \o NatToStr(0 - n) ELSE NatToStr(n)

Got == << "g", "o", "t", " " >>

(***************************************************************************)
(* Camera facade                                                           *)
(***************************************************************************)

\* A facade call in progress or finished: the stages invoked so far (trace),
\* what the last one yielded, and the image the recognizer was handed (seen).
Step(kind, exc, stage, diag, ret, text, value, trace) ==
    [kind |-> kind, exc |-> exc, stage |-> stage, diag |-> diag, ret |-> ret,
     text |-> text, value |-> value, trace |-> trace, at |-> "",
     seen |-> NoImage]

Begin == Step("return", "", "", << >>, NoImage, << >>, 0, << >>)

\* A stage's own result, before it is placed in the call.
StageOk(ret, text) == Step("return", "", "", << >>, ret, text, 0, << >>)
StageRaise(exc, stage, diag) == Step("raise", exc, stage, diag, NoImage, << >>, 0, << >>)

\* Lift the result of an Image method to a stage result.
OfImage(r) ==
    IF r.kind = "raise" THEN StageRaise(r.exc, "", << >>) ELSE StageOk(r.ret, << >>)

\* The frame in front of the camera and the collaborators' behaviour during
\* one call.
PanelSizes == { <<480, 640>>, <<300, 500>>, <<200, 400>> }

SampleTexts == { <<"3", "1">>, <<"x">>, <<"1", "5">>, <<"2", "4">>, <<"3", "9">> }

\* The classes of the panel image the trimmer hands back: the ColorImage of
\* camera/color_image.py ("source"), or the color variant of the Image
\* hierarchy as designed, whose grayscale variant has denoise and a
\* normalize_clahe that needs no arguments ("design").
Hierarchies == { "source", "design" }

Envs ==
    [readOk : BOOLEAN, alignOk : BOOLEAN, panel : PanelSizes,
     ocrOk : BOOLEAN, text : SampleTexts, hierarchy : Hierarchies]

\* CameraImageReader.read: the current frame, or a capture condition.
read(env) ==
    IF env.readOk
    THEN OfImage(Image__init__("Color", [ndim |-> 3, h |-> 720, w |-> 1280, ch |-> 3]))
    ELSE StageRaise("RecognitionError", "CaptureError", << "d", "e", "v" >>)

\* PanelTrimmer.trim: the canonical panel image, or an alignment condition.
align(env, queryImg) ==
    IF env.alignOk
    THEN LET buf == [ndim |-> 3, h |-> env.panel[1], w |-> env.panel[2], ch |-> 3]
         IN IF env.hierarchy = "design"
            THEN StageOk(Wrap("ColorVariant", buf), << >>)
            ELSE OfImage(Image__init__("Color", buf))
    ELSE StageRaise("RecognitionError", "AlignmentError", << "n", "o" >>)

\* Recognizer.imageToText: the display's text, or a backend condition.
imageToText(env, tempImg) ==
    IF env.ocrOk
    THEN StageOk(tempImg, env.text)
    ELSE StageRaise("RecognitionError", "OcrBackendError", << "o", "c", "r" >>)

\* The designed hierarchy's toGray: color to gray conversion on the color
\* variant, identity on the grayscale variant.
toGray_variant(self) ==
    IF self.cls = "GrayVariant" THEN Return(self)
    ELSE IF self.h = 0 \/ self.w = 0 THEN Raise("cv2.error")
    ELSE Return([self EXCEPT
                   !.cls = "GrayVariant", !.ndim = 2, !.ch = 0,
                   !.data = Append(self.data, BufOp("cvtColor", 0, 0, 0, 0))])

\* The designed hierarchy's denoise: median-filter smoothing, an operation
\* of the grayscale variant only.
denoise_variant(self) ==
    IF self.cls # "GrayVariant" THEN Raise("AttributeError")
    ELSE Return([self EXCEPT
                   !.data = Append(self.data, BufOp("denoise", 0, 0, 0, 0))])

\* The designed hierarchy's normalize_clahe: localized contrast
\* equalization, an operation of the grayscale variant only.
normalize_clahe_variant(self) ==
    IF self.cls # "GrayVariant" THEN Raise("AttributeError")
    ELSE Return([self EXCEPT
                   !.data = Append(self.data, BufOp("normalize_clahe", 0, 0, 0, 0))])

IsVariant(self) == self.cls \in { "ColorVariant", "GrayVariant" }

\* tempImage.toGray().denoise(): neither image class has a method denoise.
denoise(self) == Raise("AttributeError")

\* tempImage.normalize_clahe(): called without clipLimit and gridSize,
\* which GrayImage.normalize_clahe requires.
normalize_clahe(self) == Raise("TypeError")

isValidTemperature_inclusive(t) == (10 <= t) /\ (t < 40)

\* Camera.isValidTemperature
isValidTemperature(t) == (10 < t) /\ (t < 40)

interpret_unformatted(tempText) ==
    LET tempInt == int(tempText) IN
    IF ~tempInt.ok
    THEN Step("raise", "RecognitionError", "", Got \o tempText,
              NoImage, tempText, 0, << >>)
    ELSE IF ~isValidTemperature(tempInt.val)
    THEN Step("raise", "RecognitionError", "", Got \o << "%", "d" >>,
              NoImage, tempText, 0, << >>)
    ELSE Step("return", "", "", << >>, NoImage, tempText, tempInt.val, << >>)

\* Camera.get_temperature from the recognizer's return on: int(tempText),
\* the range check, and the two raise statements.
interpret(tempText) ==
    LET tempInt == int(tempText) IN
    IF ~tempInt.ok
    THEN Step("raise", "RecognitionError", "", Got \o tempText,
              NoImage, tempText, 0, << >>)
    ELSE IF ~isValidTemperature(tempInt.val)
    THEN Step("raise", "RecognitionError", "", Got \o FormatD(tempInt.val),
              NoImage, tempText, 0, << >>)
    ELSE Step("return", "", "", << >>, NoImage, tempText, tempInt.val, << >>)

\* One statement of the facade, run in the call state s (s.ret is the image
\* and s.text the text the statement before it produced).  A method call is
\* dispatched on the class of its receiver.
Statement(env, name, s) ==
    CASE name = "read" -> read(env)
      [] name = "align" -> align(env, s.ret)
      [] name = "crop" -> OfImage(trim(s.ret, <<470, 240>>, <<545, 330>>))
      [] name = "toGray" ->
            OfImage(IF IsVariant(s.ret) THEN toGray_variant(s.ret) ELSE toGray(s.ret))
      [] name = "denoise" ->
            OfImage(IF IsVariant(s.ret) THEN denoise_variant(s.ret) ELSE denoise(s.ret))
      [] name = "normalize_clahe" ->
            OfImage(IF IsVariant(s.ret) THEN normalize_clahe_variant(s.ret)
                    ELSE normalize_clahe(s.ret))
      [] name = "imageToText" -> imageToText(env, s.ret)
      [] name = "interpret" -> interpret(s.text)

\* Sequential composition: the statement runs only when no earlier statement
\* raised, since an exception leaves the function; trace lists the
\* statements run and at names the one that raised.  (CHOOSE from a
\* one-element set binds a value that is computed once.)
Then(env, sofar, name) ==
    CHOOSE out \in
        { IF s.kind = "raise" THEN s
          ELSE CHOOSE q \in
                 { [r EXCEPT !.trace = Append(s.trace, name),
                             !.at = IF r.kind = "raise" THEN name ELSE "",
                             !.seen = IF name = "imageToText" THEN s.ret
                                      ELSE s.seen] :
                   r \in { Statement(env, name, s) } } : TRUE :
          s \in {sofar} } : TRUE

getPanelImage_retry(env) ==
    CHOOSE out \in
        { Then(env,
               IF first.kind = "raise"
               THEN Then(env, [first EXCEPT !.kind = "return"], "read")
               ELSE first,
               "align") :
          first \in { Then(env, Begin, "read") } } : TRUE

\* Camera.getPanelImage
getPanelImage(env) ==
    Then(env, Then(env, Begin, "read"), "align")

getTemperetureImage_clahe_first(env) ==
    Then(env,
         Then(env,
              Then(env,
                   Then(env, getPanelImage(env), "crop"),
                   "toGray"),
              "normalize_clahe"),
         "denoise")

\* Camera.getTemperetureImage
getTemperetureImage(env) ==
    Then(env,
         Then(env,
              Then(env,
                   Then(env, getPanelImage(env), "crop"),
                   "toGray"),
              "denoise"),
         "normalize_clahe")

\* Camera.get_temperature
get_temperature(env) ==
    Then(env, Then(env, getTemperetureImage(env), "imageToText"), "interpret")

\* Camera.is_power_on
is_power_on == [kind |-> "raise", exc |-> "NotImplementedError", val |-> FALSE]

NoEnv ==
    [readOk |-> FALSE, alignOk |-> FALSE, panel |-> <<0, 0>>,
     ocrOk |-> FALSE, text |-> << >>, hierarchy |-> "source"]

NoCam == [called |-> FALSE, env |-> NoEnv, out |-> Begin]

NoPwr == [called |-> FALSE, kind |-> "", exc |-> "", val |-> FALSE]

\* camera.get_temperature()
GetTemperature ==
    /\ \E env \in Envs :
        cam' = [called |-> TRUE, env |-> env, out |-> get_temperature(env)]
    /\ UNCHANGED <<img, res, pwr, bot>>

\* camera.is_power_on()
IsPowerOn ==
    /\ pwr' = [called |-> TRUE, kind |-> is_power_on.kind,
               exc |-> is_power_on.exc, val |-> is_power_on.val]
    /\ UNCHANGED <<img, res, cam, bot>>

\* The recognizer has returned cam.env.text; the facade interprets it.
Interpret ==
    /\ ~cam.called
    /\ cam' = [cam EXCEPT !.called = TRUE, !.out = interpret(cam.env.text)]
    /\ UNCHANGED <<img, res, pwr, bot>>

(***************************************************************************)
(* Bot commands                                                            *)
(***************************************************************************)

MAX_TEMP == 30
MIN_TEMP == 18

PIN_TMP_UP == 14
PIN_TMP_DN == 15

\* The temperature buttons during one command: the last change_temperature
\* call, the pin it drove and the number of pushes.
NoPanel == [called |-> FALSE, dtemp |-> 0, pin |-> 0, pushtimes |-> 0]

\* aimed tells that the handler has computed target_temp; current is the
\* reading it was computed from.
NoBot ==
    [cmd |-> "none", mode |-> "MANUAL", replied |-> FALSE, msg |-> "",
     exc |-> "", pushes |-> 0, aimed |-> FALSE, current |-> 0, delta |-> 0,
     target |-> 0, panel |-> NoPanel]

\* await reply(msg)
Reply(b, msg) == [b EXCEPT !.replied = TRUE, !.msg = msg, !.exc = ""]

\* except RecognitionError: reply; any other exception leaves the handler.
Except(b, r) ==
    IF r.exc = "RecognitionError"
    THEN Reply(b, "recognition_failed")
    ELSE [b EXCEPT !.replied = FALSE, !.msg = "", !.exc = r.exc]

\* panel.push_power_button()
push_power_button(b) == [b EXCEPT !.pushes = Min(b.pushes + 1, 1)]

\* Bot.state
state(b, env) ==
    LET p == is_power_on IN
    IF p.kind = "raise" THEN Except(b, p)
    ELSE IF p.val
    THEN LET temp == get_temperature(env) IN
         IF temp.kind = "raise" THEN Except(b, temp) ELSE Reply(b, "on_with_temp")
    ELSE Reply(b, "off")

\* Bot.switch
switch(b, on, env) ==
    LET p == is_power_on IN
    IF p.kind = "raise" THEN Except(b, p)
    ELSE IF p.val # on
    THEN LET pushed == push_power_button(b)
             q == is_power_on
         IN IF q.kind = "raise" THEN Except(pushed, q)
            ELSE IF q.val = on
            THEN IF on
                 THEN LET temp == get_temperature(env) IN
                      IF temp.kind = "raise" THEN Except(pushed, temp)
                      ELSE Reply(pushed, "switched_on")
                 ELSE Reply(pushed, "switched_off")
            ELSE Reply(pushed, "button_failed")
    ELSE IF on THEN Reply(b, "already_on") ELSE Reply(b, "already_off")

\* Bot.mode
mode(b) ==
    LET p == is_power_on IN
    IF p.kind = "raise" THEN Except(b, p)
    ELSE IF p.val
    THEN IF b.mode = "AUTO" THEN Reply(b, "is_auto") ELSE Reply(b, "is_manual")
    ELSE Reply(b, "not_running")

\* Bot.auto
auto(b) ==
    LET p == is_power_on IN
    IF p.kind = "raise" THEN Except(b, p)
    ELSE IF p.val
    THEN IF b.mode = "AUTO" THEN Reply(b, "is_auto")
         ELSE Reply([b EXCEPT !.mode = "AUTO"], "now_auto")
    ELSE Reply(b, "not_running")

\* Bot.manual
manual(b) ==
    LET p == is_power_on IN
    IF p.kind = "raise" THEN Except(b, p)
    ELSE IF p.val
    THEN IF b.mode = "AUTO" THEN Reply([b EXCEPT !.mode = "MANUAL"], "now_manual")
         ELSE Reply(b, "is_manual")
    ELSE Reply(b, "not_running")

\* t.startswith(c)
startswith(t, c) == Len(t) > 0 /\ t[1] = c

\* t.lstrip(c): every leading c is removed.
RECURSIVE lstrip(_, _)
lstrip(t, c) == IF startswith(t, c) THEN lstrip(Tail(t), c) ELSE t

\* Panel.change_temperature
change_temperature(b, dtemp) ==
    LET pushtimes == IF dtemp < 0 THEN 0 - dtemp ELSE dtemp
        pin == IF dtemp < 0 THEN PIN_TMP_DN ELSE PIN_TMP_UP
    IN [b EXCEPT !.panel = [called |-> TRUE, dtemp |-> dtemp, pin |-> pin,
                            pushtimes |-> pushtimes]]

\* Bot.temp.  first and second are the outcomes of its two calls of
\* camera.get_temperature().  The try statement that holds the body has no
\* except clause, so an exception of either call leaves the handler.
temp(b, args, first, second) ==
    IF Len(args) # 1 THEN Reply(b, "bad_arg_count")
    ELSE IF first.kind = "raise" THEN [b EXCEPT !.exc = first.exc]
    ELSE LET current_temp == first.value
             t == args[1]
             n == IF startswith(t, "+") THEN int(lstrip(t, "+"))
                  ELSE IF startswith(t, "-") THEN int(lstrip(t, "-"))
                  ELSE int(t)
         IN IF ~n.ok THEN Reply(b, "bad_arg")
            ELSE LET delta ==
                         IF startswith(t, "+")
                         THEN Min(n.val + current_temp, MAX_TEMP) - current_temp
                         ELSE IF startswith(t, "-")
                         THEN Max(current_temp - n.val, MIN_TEMP) - current_temp
                         ELSE Max(Min(n.val, MAX_TEMP), MIN_TEMP) - current_temp
                     target_temp == current_temp + delta
                     pushed ==
                         change_temperature(
                             [b EXCEPT !.aimed = TRUE, !.current = current_temp,
                                       !.delta = delta, !.target = target_temp],
                             delta)
                 IN IF second.kind = "raise" THEN [pushed EXCEPT !.exc = second.exc]
                    ELSE IF second.value = target_temp THEN Reply(pushed, "temp_set")
                    ELSE Reply(pushed, "temp_failed")

\* A message event whose first word is a command of command_list; each
\* handler starts with no reply sent, no target computed and no temperature
\* button pushed.
Fresh(cmd) ==
    [bot EXCEPT !.cmd = cmd, !.replied = FALSE, !.msg = "", !.exc = "",
                !.aimed = FALSE, !.current = 0, !.delta = 0, !.target = 0,
                !.panel = NoPanel]

BotState ==
    /\ \E env \in Envs : bot' = state(Fresh("state"), env)
    /\ UNCHANGED <<img, res, cam, pwr>>

BotSwitch ==
    /\ \E on \in BOOLEAN, env \in Envs :
        bot' = switch(Fresh(IF on THEN "on" ELSE "off"), on, env)
    /\ UNCHANGED <<img, res, cam, pwr>>

BotMode ==
    /\ bot' = mode(Fresh("mode"))
    /\ UNCHANGED <<img, res, cam, pwr>>

BotAuto ==
    /\ bot' = auto(Fresh("auto"))
    /\ UNCHANGED <<img, res, cam, pwr>>

BotManual ==
    /\ bot' = manual(Fresh("manual"))
    /\ UNCHANGED <<img, res, cam, pwr>>

\* The words that follow "temp" in a message.
Words ==
    { << "+", "1" >>, << "-", "1" >>, << "+", "9" >>, << "-", "9" >>,
      << "+", "0" >>, << "2", "5" >>, << "5" >>, << "4", "0" >>, << "x" >>,
      << "+" >>, << "+", "-", "9" >>, << "-", "-", "1" >>, << "-", "2" >>,
      << "+", "2" >>, << "1", "8" >>, << "2", "0" >>, << "-", "0" >>,
      << "+", "_", "1" >> }

TempArgs == { << >> } \cup { << w >> : w \in Words } \cup { << << "+", "1" >>, << "5" >> >> }

\* What a call of camera.get_temperature() can come to.
CameraOutcomes == { get_temperature(env) : env \in Envs }

BotTemp ==
    /\ \E args \in TempArgs, first \in CameraOutcomes, second \in CameraOutcomes :
        bot' = temp(Fresh("temp"), args, first, second)
    /\ UNCHANGED <<img, res, cam, pwr>>

(***************************************************************************)
(* Specifications                                                          *)
(***************************************************************************)

InitRest ==
    /\ cam = NoCam
    /\ pwr = NoPwr
    /\ bot = NoBot

\* The life of an image object: built by a constructor, then transformed.
InitImage ==
    /\ img = NoImage
    /\ res = NoRes
    /\ InitRest

NextImage == Construct \/ Trim \/ ToGray \/ Rotate

SpecImage == InitImage /\ [][NextImage]_vars

\* The methods of GrayImage, applied to a receiver that holds a 2-D buffer.
GrayReceivers ==
    { Wrap("Gray", b) : b \in { x \in Buffers : x.ndim = 2 } }

InitGray ==
    /\ img \in GrayReceivers
    /\ res = NoRes
    /\ InitRest

NextGray == BlurMedian \/ ToGray \/ Trim

SpecGray == InitGray /\ [][NextGray]_vars

\* The facade and the bot commands that call it.
Init ==
    /\ img = NoImage
    /\ res = NoRes
    /\ InitRest

Next ==
    \/ GetTemperature
    \/ IsPowerOn
    \/ BotState
    \/ BotSwitch
    \/ BotMode
    \/ BotAuto
    \/ BotManual

Spec == Init /\ [][Next]_vars

\* get_temperature from the point where the recognizer has returned a text.
InitParse ==
    /\ img = NoImage
    /\ res = NoRes
    /\ cam \in { [NoCam EXCEPT !.env.text = t] : t \in Texts }
    /\ pwr = NoPwr
    /\ bot = NoBot

NextParse == Interpret

SpecParse == InitParse /\ [][NextParse]_vars

\* The temp command.
NextTemp == BotTemp

SpecTemp == Init /\ [][NextTemp]_vars

(***************************************************************************)
(* Properties                                                              *)
(***************************************************************************)

\* The diagnostic after its "got " prefix.
Offending(diag) == SubSeq(diag, Len(Got) + 1, Len(diag))

\* C1: a recognized text that parses to an integer D with 10 < D < 40 makes
\* get_temperature return exactly D, and every returned value is an integer
\* of 11..39.
C1_ValidTemperatureReturned ==
    cam.called =>
        LET D == int(cam.env.text) IN
        /\ (D.ok /\ 10 < D.val /\ D.val < 40)
              => (cam.out.kind = "return" /\ cam.out.value = D.val)
        /\ cam.out.kind = "return" => cam.out.value \in 11..39

C1_Witness ==
    /\ cam.called
    /\ cam.env.text = << " ", "3", "1" >>
    /\ cam.out.kind = "return"
    /\ cam.out.value = 31

\* C2: a recognized text that parses to D <= 10 or D >= 40, or that does not
\* parse, makes get_temperature raise RecognitionError, and the diagnostic
\* carries the rejected integer, respectively the raw text.
C2_InvalidTextRejected ==
    cam.called =>
        LET D == int(cam.env.text) IN
        /\ ~D.ok =>
              /\ cam.out.kind = "raise"
              /\ cam.out.exc = "RecognitionError"
              /\ Offending(cam.out.diag) = cam.env.text
        /\ (D.ok /\ (D.val <= 10 \/ D.val >= 40)) =>
              /\ cam.out.kind = "raise"
              /\ cam.out.exc = "RecognitionError"
              /\ int(Offending(cam.out.diag)).ok
              /\ int(Offending(cam.out.diag)).val = D.val

C2_Witness ==
    /\ cam.called
    /\ cam.env.text = << "4", "0" >>
    /\ cam.out.kind = "raise"
    /\ cam.out.exc = "RecognitionError"
    /\ cam.out.diag = << "g", "o", "t", " ", "4", "0" >>

\* C3: whichever stage of get_temperature fails, what leaves the call is a
\* RecognitionError that carries a stage tag and a diagnostic.
C3_OnlyRecognitionErrorEscapes ==
    (cam.called /\ cam.out.kind = "raise") =>
        /\ cam.out.exc = "RecognitionError"
        /\ cam.out.stage # ""
        /\ cam.out.diag # << >>

\* C4: is_power_on returns a boolean or raises RecognitionError, so every
\* bot command that calls it ends with a reply.
C4_PowerOnBooleanOrRecognitionError ==
    /\ pwr.called => (pwr.kind = "return" \/ pwr.exc = "RecognitionError")
    /\ bot.cmd \in {"state", "on", "off", "mode", "auto", "manual"} => bot.replied

Count(seq, x) == Cardinality({ i \in DOMAIN seq : seq[i] = x })

\* C5: one call of get_temperature invokes the reader's read, the panel
\* trimmer and imageToText at most once each, and the stage that failed is
\* the last stage invoked.
C5_SinglePassNoRetry ==
    cam.called =>
        /\ \A s \in {"read", "align", "imageToText"} : Count(cam.out.trace, s) <= 1
        /\ cam.out.kind = "raise" =>
              /\ cam.out.trace # << >>
              /\ cam.out.trace[Len(cam.out.trace)] = cam.out.at

C5_Witness ==
    /\ cam.called
    /\ cam.env.readOk
    /\ ~cam.env.alignOk
    /\ cam.out.kind = "raise"
    /\ cam.out.trace = << "read", "align" >>

\* Channels of the buffer a constructor was given (res.args = ndim, h, w, ch).
GivenChannels == IF res.args[1] = 3 THEN res.args[4] ELSE 1

\* C6: ColorImage(buf) succeeds exactly when buf has 3 channels, and
\* GrayImage(buf) exactly when buf is a 2-D buffer; every other construction
\* raises AssertionError.
C6_ConstructionChecksChannels ==
    res.op = "construct" =>
        /\ (res.kind = "return") <=>
              (IF res.cls = "Color" THEN GivenChannels = 3 ELSE res.args[1] = 2)
        /\ res.kind = "raise" => res.exc = "AssertionError"

\* The rectangle p1 = (x1, y1), p2 = (x2, y2) leaves the buffer's extents.
Exceeds(x1, y1, x2, y2, h, w) ==
    \/ x1 < 0 \/ x1 > w \/ x2 < 0 \/ x2 > w
    \/ y1 < 0 \/ y1 > h \/ y2 < 0 \/ y2 > h

\* C7: trim(p1, p2) with a rectangle that exceeds the buffer's extents fails;
\* it never returns a clamped buffer.
C7_TrimOutOfBoundsFails ==
    (/\ res.op = "trim"
     /\ Exceeds(res.args[1], res.args[2], res.args[3], res.args[4],
                res.pre.h, res.pre.w))
        => res.kind = "raise"

\* C8: blur_median with an even kernelSize fails with AssertionError and
\* leaves the image's pixel buffer as it was.
C8_EvenKernelRejectedBufferUnchanged ==
    (res.op = "blur_median" /\ res.args[1] % 2 = 0) =>
        /\ res.kind = "raise"
        /\ res.exc = "AssertionError"
        /\ img = res.pre

C8_Witness ==
    /\ res.op = "blur_median"
    /\ res.args[1] = 2
    /\ res.kind = "raise"
    /\ img.data = res.pre.data

\* C9: toGray returns its receiver when that is a GrayImage and yields a
\* GrayImage when it is a ColorImage.
C9_ToGrayYieldsGray ==
    res.op = "toGray" =>
        /\ res.kind = "return"
        /\ res.ret.cls = "Gray"
        /\ res.pre.cls = "Gray" => res.ret = res.pre

\* C10: _rotate leaves the buffer H rows by W columns and rotates about the
\* point at column W/2, row H/2 (the centre is recorded doubled).
C10_RotateKeepsSizeAndCentre ==
    (res.op = "rotate" /\ res.kind = "return") =>
        /\ res.ret.h = res.pre.h
        /\ res.ret.w = res.pre.w
        /\ res.ret.data[Len(res.ret.data)].b = res.pre.w
        /\ res.ret.data[Len(res.ret.data)].c = res.pre.h

\* The statements of one get_temperature call, in the order of the source.
PipelineOrder ==
    << "read", "align", "crop", "toGray", "denoise", "normalize_clahe",
       "imageToText", "interpret" >>

IsPrefix(a, b) == Len(a) <= Len(b) /\ a = SubSeq(b, 1, Len(a))

\* The slices and transforms an image's buffer has been through.
OpNames(image) == [i \in DOMAIN image.data |-> image.data[i].op]

C12_TargetWithinLimits ==
    (bot.cmd = "temp" /\ bot.aimed /\ bot.current \in 11..39) =>
        /\ bot.target \in MIN_TEMP..MAX_TEMP
        /\ bot.panel.called
        /\ bot.panel.dtemp = bot.target - bot.current

====
